---- MODULE Spec2Model ----
(***************************************************************************)
(* A model of taco's C back end (src/src/backend_c.cpp: FindVars,          *)
(* CodeGen_C, Module) and of its mode-format storage classes               *)
(* (src/src/storage/mode_type.cpp: Mode, ModePack, ModeTypeImpl).          *)
(*                                                                         *)
(* Text written to an ostream is a sequence of lines; a line is the        *)
(* sequence of the strings handed to operator<<, and the last line of a    *)
(* text is the line still being written.                                   *)
(***************************************************************************)
EXTENDS Integers, Sequences, FiniteSets, TLC

VARIABLES
  unique_name_counter, \* static int CodeGen_C::unique_name_counter
  printer,             \* the fields of the CodeGen_C in use
  out,                 \* what the latest compile() call wrote to dest
  lastStmt,            \* history: the Stmt given to the latest compile()
  generated,           \* history: every name gen_unique_name returned, in order
  printed,             \* history: <<Var, name>> for every Var the latest compile() printed
  threads,             \* concurrent compilations, each inside gen_unique_name or between calls
  module,              \* the fields of a Module, and how its latest call ended
  heap,                \* the Mode::Content objects and the ModePacks constructed
  modeType             \* a ModeTypeImpl, and the latest operation called on it

vars == <<unique_name_counter, printer, out, lastStmt, generated, printed,
          threads, module, heap, modeType>>
codegenVars == <<printer, out, lastStmt, generated, printed>>

(***************************************************************************)
(* Bounds of the model.                                                    *)
(***************************************************************************)
MaxCounter == 4   \* gen_unique_name is not called once the counter is here
NumThreads == 2   \* concurrent compilations
RandBase == 40    \* rand() results start at 0..RandBase
RandStep == 5     \* and go up by 0..RandStep from one call to the next
MaxModes == 3     \* Modes constructed
MaxPacks == 2     \* ModePacks constructed
MaxPackSize == 2  \* Modes handed to one ModePack
MaxPackLoc == 1   \* the packLoc handed to Mode::Mode is in 0..MaxPackLoc
MaxCalls == 2     \* gen_unique_name calls of one concurrent compilation

None == [tag |-> "None"]

(***************************************************************************)
(* IR nodes.  A Var is an identity (a number) with a name, a type and a    *)
(* pointer flag; two identities may carry the same name.                   *)
(***************************************************************************)
VarTable ==
  << [name |-> "A",    type |-> "Double", is_ptr |-> TRUE],
     [name |-> "A",    type |-> "Double", is_ptr |-> TRUE],
     [name |-> "t",    type |-> "Int",    is_ptr |-> FALSE],
     [name |-> "t",    type |-> "Int",    is_ptr |-> FALSE],
     [name |-> "_t_0", type |-> "Float",  is_ptr |-> FALSE] >>

Vars == 1..Len(VarTable)

LoopKinds == {"Serial", "Parallel", "Vectorized", "Reduction"}

Block(contents) ==
  [tag |-> "Block", args |-> <<>>, kind |-> "Serial", vec_width |-> 0,
   kids |-> contents]
\* args = <<var, start, end, increment>>
For(args, kind, vec_width, contents) ==
  [tag |-> "For", args |-> args, kind |-> kind, vec_width |-> vec_width,
   kids |-> <<contents>>]
\* args = <<cond>>
While(args, kind, vec_width, contents) ==
  [tag |-> "While", args |-> args, kind |-> kind, vec_width |-> vec_width,
   kids |-> <<contents>>]
Function(name, inputs, outputs, body) ==
  [tag |-> "Function", name |-> name, inputs |-> inputs, outputs |-> outputs,
   body |-> body]

IsBlock(s) == s.tag = "Block"
IsLoop(s) == s.tag \in {"For", "While"}

EmptyBlock == Block(<<>>)

(***************************************************************************)
(* The statements and functions the model hands to compile().              *)
(***************************************************************************)
KindWidths ==
  {<<"Serial", 0>>, <<"Parallel", 0>>, <<"Vectorized", 0>>,
   <<"Vectorized", 8>>, <<"Reduction", 8>>}

LeafLoops ==
  {For(<<3, 1, 1, 1>>, kw[1], kw[2], EmptyBlock) : kw \in KindWidths}
  \cup {While(<<4>>, kw[1], kw[2], EmptyBlock) : kw \in KindWidths}

InnerLoops ==
  {For(<<3, 1, 1, 1>>, "Vectorized", 0, EmptyBlock),
   While(<<4>>, "Parallel", 0, EmptyBlock)}

OuterLoops ==
  UNION {{For(<<4, 1, 2, 3>>, "Vectorized", 8, c),
          While(<<3>>, "Vectorized", 8, c)} :
           c \in InnerLoops \cup {Block(<<l>>) : l \in InnerLoops}}

Bodies ==
  {EmptyBlock, Block(<<EmptyBlock>>)}
  \cup InnerLoops
  \cup {Block(<<l>>) : l \in LeafLoops}
  \cup {Block(<<l1, l2>>) : l1 \in InnerLoops, l2 \in InnerLoops}
  \cup OuterLoops

\* the statements handed to compile() outside any Function
BareStmts == {EmptyBlock, While(<<4>>, "Vectorized", 0, EmptyBlock)}

InputLists == {<<>>, <<1>>, <<1, 5>>}
OutputLists == {<<>>, <<2>>}

Functions ==
  {Function("f", i, o, b) : i \in InputLists, o \in OutputLists, b \in Bodies}

(***************************************************************************)
(* Text.                                                                   *)
(***************************************************************************)
EmptyText == << <<>> >>

\* os << s
Put(text, s) == [text EXCEPT ![Len(text)] = Append(@, s)]
\* os << "\n"
Newline(text) == Append(text, <<>>)

RECURSIVE PutAll(_, _)
PutAll(text, ss) ==
  IF ss = <<>> THEN text ELSE PutAll(Put(text, Head(ss)), Tail(ss))

\* os << str, where str is the complete lines `lines`
RECURSIVE PutLines(_, _)
PutLines(text, lines) ==
  IF lines = <<>> THEN text
  ELSE PutLines(Newline(PutAll(text, Head(lines))), Tail(lines))

Digits == <<"0", "1", "2", "3", "4", "5", "6", "7", "8", "9">>

\* os << n, for an int n >= 0
RECURSIVE IntToString(_)
IntToString(n) ==
  IF n < 10 THEN Digits[n + 1]
  ELSE IntToString(n \div 10) \o Digits[(n % 10) + 1]

(***************************************************************************)
(* FindVars and the helpers of backend_c.cpp.                              *)
(***************************************************************************)
SeqRange(s) == {s[i] : i \in 1..Len(s)}

\* a var_map with no entry
EmptyMap == [v \in {} |-> ""]

\* IRVisitor's default recursion: the Vars of a statement, in visit order
RECURSIVE VarOccurrences(_)
RECURSIVE VarOccurrencesOfAll(_)
VarOccurrences(s) ==
  CASE s.tag = "Block" -> VarOccurrencesOfAll(s.kids)
    [] s.tag = "For"   -> s.args \o VarOccurrences(s.kids[1])
    [] s.tag = "While" -> s.args \o VarOccurrences(s.kids[1])
VarOccurrencesOfAll(ss) ==
  IF ss = <<>> THEN <<>>
  ELSE VarOccurrences(Head(ss)) \o VarOccurrencesOfAll(Tail(ss))

\* gen_unique_name without the increment
gen_unique_name_no_increment(name, counter) ==
  [name    |-> "_" \o name \o "_" \o IntToString(counter),
   counter |-> counter]

\* string CodeGen_C::gen_unique_name(string name): the name returned and the
\* counter it leaves
gen_unique_name(name, counter) ==
  [name    |-> "_" \o name \o "_" \o IntToString(counter),
   counter |-> counter + 1]

\* FindVars::FindVars: inputs then outputs enter the map under their own names;
\* ok is FALSE when an iassert (a duplicate identity) fails
RECURSIVE CopyIntoMap(_, _)
CopyIntoMap(fv, vs) ==
  IF vs = <<>> THEN fv
  ELSE LET v == Head(vs) IN
       IF v \in DOMAIN fv.var_map
       THEN [fv EXCEPT !.ok = FALSE]
       ELSE CopyIntoMap(
              [fv EXCEPT !.var_map = (v :> VarTable[v].name) @@ fv.var_map],
              Tail(vs))

FindVarsInit(inputs, outputs, counter) ==
  CopyIntoMap(
    CopyIntoMap([var_map |-> EmptyMap, counter |-> counter, names |-> <<>>,
                 ok |-> TRUE], inputs),
    outputs)

\* FindVars::visit(const Var*)
FindVarsVisit(fv, v) ==
  IF v \in DOMAIN fv.var_map THEN fv
  ELSE LET g == gen_unique_name(VarTable[v].name, fv.counter) IN
       [fv EXCEPT !.var_map = (v :> g.name) @@ fv.var_map,
                  !.counter = g.counter,
                  !.names   = Append(fv.names, g.name)]

RECURSIVE FindVarsVisitAll(_, _)
FindVarsVisitAll(fv, vs) ==
  IF vs = <<>> THEN fv
  ELSE FindVarsVisitAll(FindVarsVisit(fv, Head(vs)), Tail(vs))

\* FindVars var_finder(inputs, outputs); body.accept(&var_finder)
FindVars(func, counter) ==
  FindVarsVisitAll(FindVarsInit(func.inputs, func.outputs, counter),
                   VarOccurrences(func.body))

\* string to_c_type(ComponentType typ, bool is_ptr); every type of VarTable is
\* one of the three, so the iassert of the last branch never fails
to_c_type(typ, is_ptr) ==
  LET ret == CASE typ = "Int"    -> "int"
               [] typ = "Float"  -> "float"
               [] typ = "Double" -> "double"
  IN IF is_ptr THEN ret \o "*" ELSE ret

\* the keys of a var_map in the order the map iterates them
RECURSIVE KeysInOrder(_)
KeysInOrder(S) ==
  IF S = {} THEN <<>>
  ELSE LET m == CHOOSE x \in S : \A y \in S : x <= y
       IN <<m>> \o KeysInOrder(S \ {m})

\* string print_decls(var_map, inputs, outputs): one line per var that is
\* neither an input nor an output
RECURSIVE DeclLines(_, _, _)
DeclLines(keys, var_map, io) ==
  IF keys = <<>> THEN <<>>
  ELSE LET v == Head(keys)
           rest == DeclLines(Tail(keys), var_map, io)
       IN IF v \in io THEN rest
          ELSE << <<"  ", to_c_type(VarTable[v].type, VarTable[v].is_ptr),
                    " ", var_map[v], ";">> >> \o rest

print_decls(var_map, inputs, outputs) ==
  DeclLines(KeysInOrder(DOMAIN var_map), var_map,
            SeqRange(inputs) \cup SeqRange(outputs))


(***************************************************************************)
(* CodeGen_C.  A visit takes and returns the printer's state pr: the text  *)
(* written so far, the fields indent, func_block, func_decls and var_map,  *)
(* ok (no iassert has failed) and the history of printed Vars.             *)
(***************************************************************************)
\* IRPrinter::do_indent: two spaces per level
RECURSIVE Indentation(_, _)
Indentation(text, n) ==
  IF n <= 0 THEN text ELSE Indentation(Put(text, "  "), n - 1)

do_indent(pr) == [pr EXCEPT !.text = Indentation(pr.text, pr.indent)]

Write(pr, s) == [pr EXCEPT !.text = Put(pr.text, s)]
WriteNl(pr) == [pr EXCEPT !.text = Newline(pr.text)]

\* void CodeGen_C::visit(const Var* op)
VisitVar(pr, v) ==
  IF v \in DOMAIN pr.var_map
  THEN [pr EXCEPT !.text = Put(pr.text, pr.var_map[v]),
                  !.printed = @ \cup {<<v, pr.var_map[v]>>}]
  ELSE [pr EXCEPT !.ok = FALSE]

\* string gen_vectorize_pragma(int width)
gen_vectorize_pragma(width) ==
  "#pragma clang loop interleave(enable) "
  \o (IF width = 0 THEN "vectorize(enable)"
      ELSE "vectorize_width(" \o IntToString(width) \o ")")

\* a test that takes Parallel loops for Vectorized ones too
HasPragma_also_parallel(kind) == kind \in {"Vectorized", "Parallel"}

\* the test `op->kind == LoopKind::Vectorized` of visit(For*) and visit(While*)
HasPragma(kind) == kind = "Vectorized"

\* the first lines of visit(For*) and visit(While*)
VisitPragma(pr, op) ==
  IF HasPragma(op.kind)
  THEN WriteNl(Write(do_indent(pr), gen_vectorize_pragma(op.vec_width)))
  ELSE pr

RECURSIVE Visit(_, _)

\* the contents of a loop: op->contents.accept(this) between the braces
VisitContents(pr, c) ==
  IF IsBlock(c) THEN Visit(pr, c)
  ELSE LET p1 == do_indent([pr EXCEPT !.indent = @ + 1])
           p2 == Visit(p1, c)
       IN [p2 EXCEPT !.indent = @ - 1]

\* void CodeGen_C::visit(const For* op)
VisitFor(pr, op) ==
  LET var == op.args[1]
      p1 == Write(do_indent(VisitPragma(pr, op)), "for (")
      p2 == VisitVar(Write(VisitVar(p1, var), "="), op.args[2])
      p3 == VisitVar(Write(VisitVar(Write(p2, "; "), var), "<"), op.args[3])
      p4 == VisitVar(Write(VisitVar(Write(p3, "; "), var), "+="), op.args[4])
      p5 == WriteNl(Write(do_indent(WriteNl(Write(p4, ")"))), "{"))
      p6 == VisitContents(p5, op.kids[1])
  IN WriteNl(Write(do_indent(p6), "}"))

\* void CodeGen_C::visit(const While* op)
VisitWhile(pr, op) ==
  LET p1 == Write(do_indent(VisitPragma(pr, op)), "while (")
      p2 == WriteNl(Write(VisitVar(p1, op.args[1]), ")"))
      p3 == WriteNl(Write(do_indent(p2), "{"))
      p4 == VisitContents(p3, op.kids[1])
  IN WriteNl(Write(do_indent(p4), "}"))

\* the loop of visit(Block*): a statement that is no IfThenElse, For or While
\* is followed by a line break
RECURSIVE VisitStmts(_, _)
VisitStmts(pr, ss) ==
  IF ss = <<>> THEN pr
  ELSE LET p1 == Visit(pr, Head(ss))
           p2 == IF IsLoop(Head(ss)) THEN p1 ELSE WriteNl(p1)
       IN VisitStmts(p2, Tail(ss))

\* void CodeGen_C::visit(const Block* op)
VisitBlock(pr, op) ==
  LET output_return == pr.func_block
      p1 == [pr EXCEPT !.func_block = FALSE, !.indent = @ + 1]
      p2 == IF output_return
            THEN [p1 EXCEPT !.text = PutLines(p1.text, p1.func_decls)]
            ELSE p1
      p3 == VisitStmts(p2, op.kids)
      p4 == IF output_return
            THEN WriteNl(Write(do_indent(p3), "return 0;"))
            ELSE p3
  IN [p4 EXCEPT !.indent = @ - 1]

Visit(pr, s) ==
  CASE s.tag = "Block" -> VisitBlock(pr, s)
    [] s.tag = "For"   -> VisitFor(pr, s)
    [] s.tag = "While" -> VisitWhile(pr, s)

\* the inputs of the header of visit(Function*): a ", " after every input but
\* the last
RECURSIVE WriteInputs(_, _, _)
WriteInputs(pr, inputs, i) ==
  IF i > Len(inputs) THEN pr
  ELSE LET var == VarTable[inputs[i]]
           p1 == Write(Write(Write(pr, to_c_type(var.type, var.is_ptr)), " "),
                       var.name)
           p2 == IF i # Len(inputs) THEN Write(p1, ", ") ELSE p1
       IN WriteInputs(p2, inputs, i + 1)

\* the outputs of the header of visit(Function*): a ", " before every output
RECURSIVE WriteOutputs(_, _)
WriteOutputs(pr, outputs) ==
  IF outputs = <<>> THEN pr
  ELSE LET var == VarTable[Head(outputs)]
           p1 == Write(Write(Write(Write(pr, ", "),
                                   to_c_type(var.type, var.is_ptr)), " "),
                       var.name)
       IN WriteOutputs(p1, Tail(outputs))

\* void CodeGen_C::visit(const Function* func), given what FindVars found
VisitFunction(pr, func, fv) ==
  LET p0 == [pr EXCEPT !.var_map = fv.var_map,
                       !.ok = pr.ok /\ fv.ok,
                       !.func_decls =
                          print_decls(fv.var_map, func.inputs, func.outputs)]
      p1 == Write(Write(Write(p0, "int "), func.name), "(")
      p2 == WriteOutputs(WriteInputs(p1, func.inputs, 1), func.outputs)
      p3 == WriteNl(Write(do_indent(Write(p2, ") ")), "{"))
      p4 == Visit(p3, func.body)
      p5 == WriteNl(Write(do_indent(p4), "}"))
  IN [p5 EXCEPT !.func_block = TRUE, !.func_decls = <<>>]

\* CodeGen_C::CodeGen_C(std::ostream &dest)
NewPrinter ==
  [indent |-> 0, func_block |-> TRUE, func_decls |-> <<>>, var_map |-> EmptyMap]

\* the printer's state as a compile() call finds it
Start(p) ==
  [text |-> EmptyText, indent |-> p.indent, func_block |-> p.func_block,
   func_decls |-> p.func_decls, var_map |-> p.var_map, ok |-> TRUE,
   printed |-> {}]

Fields(pr) ==
  [indent |-> pr.indent, func_block |-> pr.func_block,
   func_decls |-> pr.func_decls, var_map |-> pr.var_map]

\* no Module, Mode, ModePack or ModeTypeImpl has been constructed
InitModule == [state |-> "none"]
InitHeap == [contents |-> <<>>, packs |-> <<>>]
InitModeType == [impl |-> None, call |-> None]

(***************************************************************************)
(* The operations of the back end.                                         *)
(***************************************************************************)
Threads == 1..NumThreads

InitThreads == [t \in Threads |-> [pc |-> "idle", name |-> "", reg |-> 0, ret |-> <<>>]]

Init ==
  /\ unique_name_counter = 0
  /\ printer = NewPrinter
  /\ out = EmptyText
  /\ lastStmt = None
  /\ generated = <<>>
  /\ printed = {}
  /\ threads = InitThreads
  /\ module = InitModule
  /\ heap = InitHeap
  /\ modeType = InitModeType

\* a CodeGen_C is constructed, and used from now on
Construct ==
  /\ printer # NewPrinter
  /\ printer' = NewPrinter
  /\ out' = EmptyText
  /\ lastStmt' = None
  /\ printed' = {}
  /\ UNCHANGED <<unique_name_counter, generated, threads, module, heap, modeType>>

\* compile(stmt) with a Function: no iassert fails
CompileFunction(func) ==
  \E fv \in {FindVars(func, unique_name_counter)} :
    /\ fv.counter <= MaxCounter
    /\ \E pr \in {VisitFunction(Start(printer), func, fv)} :
         /\ pr.ok
         /\ unique_name_counter' = fv.counter
         /\ generated' = generated \o fv.names
         /\ printer' = Fields(pr)
         /\ out' = pr.text
         /\ printed' = pr.printed
         /\ lastStmt' = func
         /\ UNCHANGED <<threads, module, heap, modeType>>

\* compile(stmt) with a Block, a For or a While: no iassert fails
CompileStmt(stmt) ==
  \E pr \in {Visit(Start(printer), stmt)} :
    /\ pr.ok
    /\ printer' = Fields(pr)
    /\ out' = pr.text
    /\ printed' = pr.printed
    /\ lastStmt' = stmt
    /\ UNCHANGED <<unique_name_counter, generated, threads, module, heap, modeType>>

Next ==
  \/ Construct
  \/ \E func \in Functions : CompileFunction(func)
  \/ \E stmt \in BareStmts : CompileStmt(stmt)

Spec == Init /\ [][Next]_vars

(***************************************************************************)
(* Reading the emitted text.                                               *)
(***************************************************************************)
RECURSIVE Stripped(_)
\* a line without its indentation
Stripped(line) ==
  IF line # <<>> /\ Head(line) = "  " THEN Stripped(Tail(line)) ELSE line

RECURSIVE Concat(_)
\* the characters of a line
Concat(line) == IF line = <<>> THEN "" ELSE Head(line) \o Concat(Tail(line))

IsLoopHeader(line) ==
  Stripped(line) # <<>> /\ Head(Stripped(line)) \in {"for (", "while ("}
IsReturn(line) == Stripped(line) = <<"return 0;">>
IsClosingBrace(line) == Stripped(line) = <<"}">>
\* a line "  <type> <name>;"
IsDecl(line) ==
  /\ Len(line) = 5
  /\ line[1] = "  " /\ line[3] = " " /\ line[5] = ";"
  /\ line[2] \in {"int", "float", "double", "int*", "float*", "double*"}
\* a line that is one string and neither a brace nor the return
IsPragma(line) ==
  /\ Len(Stripped(line)) = 1
  /\ Head(Stripped(line)) \notin {"{", "}", "return 0;"}

LastIsFunction == lastStmt.tag = "Function"
IO(func) == SeqRange(func.inputs) \cup SeqRange(func.outputs)
\* the vars of the latest Function that are neither inputs nor outputs
Internal == DOMAIN printer.var_map \ IO(lastStmt)

\* the loops of a statement, outermost first, in source order
RECURSIVE Loops(_)
RECURSIVE LoopsOfAll(_)
Loops(s) ==
  CASE s.tag = "Block"    -> LoopsOfAll(s.kids)
    [] s.tag = "Function" -> Loops(s.body)
    [] s.tag = "None"     -> <<>>
    [] OTHER              -> <<s>> \o Loops(s.kids[1])
LoopsOfAll(ss) ==
  IF ss = <<>> THEN <<>> ELSE Loops(Head(ss)) \o LoopsOfAll(Tail(ss))

(***************************************************************************)
(* C1 (as claimed): after a Function is printed, no two Vars of its        *)
(* var_map share an emitted name, every input and output is emitted under  *)
(* its source name, and every use of one Var printed one name.             *)
(***************************************************************************)
C1_EmittedNamesInjective ==
  LastIsFunction =>
    /\ \A a, b \in DOMAIN printer.var_map :
         a # b => printer.var_map[a] # printer.var_map[b]
    /\ \A v \in IO(lastStmt) : printer.var_map[v] = VarTable[v].name
    /\ \A p, q \in printed : p[1] = q[1] => p[2] = q[2]

(***************************************************************************)
(* C2 (as claimed): the text of every printed Function has the             *)
(* declarations of its internal vars exactly once, right after the header  *)
(* line, and exactly one `return 0;`, on the line before the closing       *)
(* brace, which is the last line.                                          *)
(***************************************************************************)
C2_DeclsOnceReturnLast ==
  LastIsFunction =>
    LET decls == print_decls(printer.var_map, lastStmt.inputs, lastStmt.outputs)
        n == Len(decls)
        last == Len(out) - 1   \* the last complete line
    IN /\ last >= n + 3
       /\ \A i \in 1..n : out[1 + i] = decls[i]
       /\ \A j \in 1..last : IsDecl(out[j]) => j \in 2..(n + 1)
       /\ IsClosingBrace(out[last])
       /\ IsReturn(out[last - 1])
       /\ Cardinality({j \in 1..last : IsReturn(out[j])}) = 1

(***************************************************************************)
(* C4: single-threaded, the counter is the number of names generated so    *)
(* far (it starts at 0 and goes up by one per gen_unique_name call), the   *)
(* i-th name generated is "_" + original + "_" + (i-1), and no two names   *)
(* generated, in one function or across functions, are equal.              *)
(***************************************************************************)
C4_CounterMonotonicNamesUnique ==
  /\ unique_name_counter = Len(generated)
  /\ \A i \in 1..Len(generated) :
       \E v \in Vars :
         generated[i] = "_" \o VarTable[v].name \o "_" \o ToString(i - 1)
  /\ \A i, j \in 1..Len(generated) : i # j => generated[i] # generated[j]
  /\ LastIsFunction =>
       \A v \in Internal : \E i \in 1..Len(generated) :
         printer.var_map[v] = generated[i]

\* a second Function has been printed, with two internal vars of one source
\* name, after names were generated for an earlier Function
C4_Witness ==
  /\ LastIsFunction
  /\ unique_name_counter = 4
  /\ Cardinality(Internal) = 2
  /\ \A v \in Internal : VarTable[v].name = "t"

(***************************************************************************)
(* C8 (as claimed): the header of every printed Function is                *)
(* `int <name>(` and the parameters, inputs then outputs, each             *)
(* `<C type> <name>`, separated by exactly one ", ".                       *)
(***************************************************************************)
ParamText(v) ==
  (CASE VarTable[v].type = "Int"    -> "int"
     [] VarTable[v].type = "Float"  -> "float"
     [] VarTable[v].type = "Double" -> "double")
  \o (IF VarTable[v].is_ptr THEN "*" ELSE "") \o " " \o VarTable[v].name

RECURSIVE Joined(_)
Joined(params) ==
  IF params = <<>> THEN ""
  ELSE IF Len(params) = 1 THEN ParamText(params[1])
  ELSE ParamText(params[1]) \o ", " \o Joined(Tail(params))

C8_HeaderWellFormed ==
  LastIsFunction =>
    Concat(out[1]) =
      "int " \o lastStmt.name \o "("
      \o Joined(lastStmt.inputs \o lastStmt.outputs) \o ") {"

(***************************************************************************)
(* C10: in the text of every compile(), the k-th loop header belongs to    *)
(* the k-th loop; the line before the header of a Vectorized loop is the   *)
(* pragma, ending vectorize(enable) for width 0 and vectorize_width(<w>)   *)
(* otherwise; the line before the header of any other loop is no pragma;   *)
(* and every pragma line is followed by a loop header.                     *)
(***************************************************************************)
ExpectedPragma(w) ==
  IF w = 0 THEN "#pragma clang loop interleave(enable) vectorize(enable)"
  ELSE "#pragma clang loop interleave(enable) vectorize_width("
       \o ToString(w) \o ")"

C10_PragmaIffVectorized ==
  LET loops == Loops(lastStmt)
      hdrs == KeysInOrder({j \in 1..Len(out) : IsLoopHeader(out[j])})
  IN /\ Len(hdrs) = Len(loops)
     /\ \A k \in 1..Len(hdrs) :
          LET j == hdrs[k]
              op == loops[k]
          IN /\ Head(Stripped(out[j])) =
                  (IF op.tag = "For" THEN "for (" ELSE "while (")
             /\ IF op.kind = "Vectorized"
                THEN j > 1 /\ Stripped(out[j - 1]) = <<ExpectedPragma(op.vec_width)>>
                ELSE j = 1 \/ ~IsPragma(out[j - 1])
     /\ \A j \in 1..Len(out) :
          IsPragma(out[j]) => j < Len(out) /\ IsLoopHeader(out[j + 1])

\* a Vectorized For of width 8 around a Parallel While has been printed
C10_Witness ==
  /\ LastIsFunction
  /\ \E j \in 2..Len(out) :
       /\ Stripped(out[j - 1]) =
            <<"#pragma clang loop interleave(enable) vectorize_width(8)">>
       /\ Head(Stripped(out[j])) = "for ("
  /\ \E k \in 1..Len(Loops(lastStmt)) :
       Loops(lastStmt)[k].tag = "While" /\ Loops(lastStmt)[k].kind = "Parallel"

(***************************************************************************)
(* Concurrent compilations.  `unique_name_counter++` on the plain static   *)
(* int is a load and a store with nothing between them that keeps another *)
(* thread out.                                                             *)
(***************************************************************************)
OriginalNames == {"t", "A"}

\* a thread enters gen_unique_name(name) and loads the counter
GenLoad(t, name) ==
  /\ threads[t].pc = "idle"
  /\ Len(threads[t].ret) < MaxCalls
  /\ threads' = [threads EXCEPT ![t].pc = "loaded", ![t].name = name,
                                ![t].reg = unique_name_counter]
  /\ UNCHANGED <<unique_name_counter, codegenVars, module, heap, modeType>>

\* the thread stores the incremented value and returns the name made of the
\* value it loaded
GenStore(t) ==
  /\ threads[t].pc = "loaded"
  /\ LET g == gen_unique_name(threads[t].name, threads[t].reg) IN
       /\ unique_name_counter' = g.counter
       /\ threads' = [threads EXCEPT ![t].pc = "idle",
                                     ![t].ret = Append(@, g.name)]
  /\ UNCHANGED <<codegenVars, module, heap, modeType>>

NextRace ==
  \/ \E t \in Threads, name \in OriginalNames : GenLoad(t, name)
  \/ \E t \in Threads : GenStore(t)

SpecRace == Init /\ [][NextRace]_vars

RECURSIVE SumCalls(_)
SumCalls(T) ==
  IF T = {} THEN 0
  ELSE LET t == CHOOSE x \in T : TRUE
       IN Len(threads[t].ret) + SumCalls(T \ {t})

(***************************************************************************)
(* C3 (as claimed): under concurrent compilations no two gen_unique_name   *)
(* calls return the same identifier, and once every call has returned the  *)
(* counter has gone up by the number of calls (no increment is lost).      *)
(***************************************************************************)
C3_IncrementAtomic ==
  /\ \A t1, t2 \in Threads :
       \A i \in 1..Len(threads[t1].ret), j \in 1..Len(threads[t2].ret) :
         (t1 # t2 \/ i # j) => threads[t1].ret[i] # threads[t2].ret[j]
  /\ (\A t \in Threads : threads[t].pc = "idle")
       => unique_name_counter = SumCalls(Threads)

(***************************************************************************)
(* Module: the JIT module of backend_c.cpp.                                *)
(***************************************************************************)
\* the alphabet with the l left in
chars_with_l ==
  <<"a", "b", "c", "d", "e", "f", "g", "h", "i", "j", "k", "l", "m", "n", "p",
    "q", "r", "s", "t", "u", "v", "w", "x", "y", "z", "0", "1", "2", "3", "4",
    "5", "6", "7", "8", "9">>

\* string chars = "abcdefghijkmnpqrstuvwxyz0123456789"
chars ==
  <<"a", "b", "c", "d", "e", "f", "g", "h", "i", "j", "k", "m", "n", "p", "q",
    "r", "s", "t", "u", "v", "w", "x", "y", "z", "0", "1", "2", "3", "4", "5",
    "6", "7", "8", "9">>

LibnameLength == 12

\* the loop of set_libname: libname[i] = chars[rand() % chars.length()],
\* rs[i + 1] being the result of the i-th rand() call
RECURSIVE SetChars(_, _, _)
SetChars(libname, rs, i) ==
  IF i >= LibnameLength THEN libname
  ELSE SetChars([libname EXCEPT ![i + 1] = chars[(rs[i + 1] % Len(chars)) + 1]],
                rs, i + 1)

\* void Module::set_libname(): resize(12), then the loop
set_libname(rs) == SetChars([i \in 1..LibnameLength |-> "\\0"], rs, 0)

\* the results of twelve consecutive rand() calls
RandSeqs ==
  {[i \in 1..LibnameLength |-> a + b * (i - 1)] :
     a \in 0..RandBase, b \in 0..RandStep}

\* getenv("TMPDIR"): unset, or a directory
TmpdirEnv == {"NULL", "/var/tmp/"}

\* Module::Module(string source)
ModuleCtor(source, env, rs) ==
  /\ module.state = "none"
  /\ module' = [state      |-> "constructed",
                source     |-> <<"#include <stdio.h>">> \o source,
                tmpdir     |-> IF env = "NULL" THEN "/tmp/" ELSE env,
                libname    |-> set_libname(rs),
                lib_handle |-> "unset",
                call       |-> None]
  /\ UNCHANGED <<unique_name_counter, codegenVars, threads, heap, modeType>>

\* the exit statuses system() hands back, and what dlopen returns
CcStatus == {0, 256}
DlopenResults == {"NULL", "handle"}

\* string Module::compile(): uassert(err == 0) ends the call when cc failed;
\* otherwise dlopen's result is stored and fullpath returned
ModuleCompile(err, dl) ==
  /\ module.state \in {"constructed", "compiled"}
  /\ LET prefix == module.tmpdir \o Concat(module.libname)
         fullpath == prefix \o ".so"
     IN IF err # 0
        THEN module' = [module EXCEPT
               !.state = "aborted",
               !.call = [op |-> "compile", err |-> err, dlopen |-> "not called",
                         returned |-> FALSE, result |-> None]]
        ELSE module' = [module EXCEPT
               !.state = "compiled",
               !.lib_handle = dl,
               !.call = [op |-> "compile", err |-> err, dlopen |-> dl,
                         returned |-> TRUE, result |-> fullpath]]
  /\ UNCHANGED <<unique_name_counter, codegenVars, threads, heap, modeType>>

\* void* Module::get_func(std::string name): sym is what dlsym returns
ModuleGetFunc(sym) ==
  /\ module.state = "compiled"
  /\ IF sym = "NULL"
     THEN module' = [module EXCEPT
            !.state = "aborted",
            !.call = [op |-> "get_func", returned |-> FALSE, result |-> None]]
     ELSE module' = [module EXCEPT
            !.call = [op |-> "get_func", returned |-> TRUE, result |-> sym]]
  /\ UNCHANGED <<unique_name_counter, codegenVars, threads, heap, modeType>>

NextModule ==
  \/ \E env \in TmpdirEnv, rs \in RandSeqs : ModuleCtor(<<"source">>, env, rs)
  \/ \E err \in CcStatus, dl \in DlopenResults : ModuleCompile(err, dl)
  \/ \E sym \in {"NULL", "address"} : ModuleGetFunc(sym)

SpecModule == Init /\ [][NextModule]_vars

(***************************************************************************)
(* C5 (as claimed): compile() returns, with the shared-object path, exactly*)
(* when cc exited with status 0 and the shared object was loaded; after a  *)
(* cc failure or a load failure it hands no result back.                   *)
(***************************************************************************)
C5_CompileReturnsOnlyWhenLoaded ==
  (module.state # "none" /\ module.call # None /\ module.call.op = "compile") =>
    /\ module.call.returned <=>
         (module.call.err = 0 /\ module.call.dlopen = "handle")
    /\ ~module.call.returned => module.call.result = None

(***************************************************************************)
(* C9 (as claimed): the stem of every Module has length 12 and every one   *)
(* of its characters is in [a-hjkm-np-z0-9]: no i, no l, no o.             *)
(***************************************************************************)
DigitChars == {"0", "1", "2", "3", "4", "5", "6", "7", "8", "9"}
LetterChars ==
  {"a", "b", "c", "d", "e", "f", "g", "h", "i", "j", "k", "l", "m", "n", "o",
   "p", "q", "r", "s", "t", "u", "v", "w", "x", "y", "z"}

C9_StemAlphabetWithoutILO ==
  module.state # "none" =>
    /\ Len(module.libname) = 12
    /\ \A i \in 1..Len(module.libname) :
         module.libname[i] \in (LetterChars \ {"i", "l", "o"}) \cup DigitChars

(***************************************************************************)
(* C9 (amended): the stem of every Module has length 12 and every one of   *)
(* its characters is in [a-km-np-z0-9]: no l, no o; i is in the alphabet.  *)
(***************************************************************************)
C9_StemAlphabetWithoutLO ==
  module.state # "none" =>
    /\ Len(module.libname) = 12
    /\ \A i \in 1..Len(module.libname) :
         module.libname[i] \in (LetterChars \ {"l", "o"}) \cup DigitChars

\* set_libname has run, and the stem holds an i and the alphabet's last
\* character
C9_Witness ==
  /\ module.state = "constructed"
  /\ \E i \in 1..12 : module.libname[i] = "i"
  /\ \E i \in 1..12 : module.libname[i] = "9"

(***************************************************************************)
(* Mode and ModePack (mode_type.cpp).  A Mode is a handle to a Content     *)
(* object; the copies of a Mode share it.  heap.contents[m] is the Content *)
(* of Mode m, heap.packs[p] the modes vector of ModePack p; pack 0 is the  *)
(* null pointer.                                                           *)
(***************************************************************************)
\* Mode::Mode(tensor, size, level, modeType, pack, packLoc, parentModeType)
NewMode(pack, packLoc) ==
  /\ Len(heap.contents) < MaxModes
  /\ heap' = [heap EXCEPT
       !.contents = Append(@, [pack |-> pack, packLoc |-> packLoc])]
  /\ UNCHANGED <<unique_name_counter, codegenVars, threads, module, modeType>>

\* ModePack::ModePack(const vector<Mode>& modes): the vector is copied and the
\* Content of each of its Modes is pointed at this pack
NewModePack(modes) ==
  /\ Len(heap.packs) < MaxPacks
  /\ LET this == Len(heap.packs) + 1 IN
       heap' = [contents |->
                  [m \in 1..Len(heap.contents) |->
                     IF m \in SeqRange(modes)
                     THEN [heap.contents[m] EXCEPT !.pack = this]
                     ELSE heap.contents[m]],
                packs |-> Append(heap.packs, modes)]
  /\ UNCHANGED <<unique_name_counter, codegenVars, threads, module, modeType>>

\* size_t ModePack::getSize() const
getSize(p) == Len(heap.packs[p])

ModeVectors ==
  UNION {[1..n -> 1..Len(heap.contents)] : n \in 0..MaxPackSize}

NextModes ==
  \/ \E pack \in 0..Len(heap.packs), packLoc \in 0..MaxPackLoc :
       NewMode(pack, packLoc)
  \/ \E modes \in ModeVectors : NewModePack(modes)

SpecModes == Init /\ [][NextModes]_vars

(***************************************************************************)
(* C6 (as claimed): for every ModePack P and every Mode m it holds, m's    *)
(* pack is P and m's pack location is below P.getSize(); so a Mode held by *)
(* a pack is held by one pack only.                                        *)
(***************************************************************************)
C6_PackBackReference ==
  /\ \A p \in 1..Len(heap.packs) : \A k \in 1..Len(heap.packs[p]) :
       LET m == heap.packs[p][k] IN
         /\ heap.contents[m].pack = p
         /\ heap.contents[m].packLoc < getSize(p)
  /\ \A m \in 1..Len(heap.contents) :
       Cardinality({p \in 1..Len(heap.packs) : m \in SeqRange(heap.packs[p])}) <= 1

(***************************************************************************)
(* ModeTypeImpl (mode_type.cpp): the capability flags and the operations   *)
(* as the class defines them.                                              *)
(***************************************************************************)
\* Stmt() and Expr(): the undefined handles.  What an operation returns is
\* the tuple of its handles: three for a std::tuple<Stmt,Expr,Expr>, else one
UndefStmt == [node |-> "Stmt", defined |-> FALSE]
UndefExpr == [node |-> "Expr", defined |-> FALSE]

getCoordIter == <<UndefStmt, UndefExpr, UndefExpr>>
getCoordAccess == <<UndefStmt, UndefExpr, UndefExpr>>
getPosIter == <<UndefStmt, UndefExpr, UndefExpr>>
getPosAccess == <<UndefStmt, UndefExpr, UndefExpr>>
getLocate == <<UndefStmt, UndefExpr, UndefExpr>>
getInsertCoord == <<UndefStmt>>
getModeSize == <<UndefExpr>>
getInsertInitCoords == <<UndefStmt>>
getInsertInitLevel == <<UndefStmt>>
getInsertFinalizeLevel == <<UndefStmt>>
getAppendCoord == <<UndefStmt>>
getAppendEdges == <<UndefStmt>>
getAppendInitEdges == <<UndefStmt>>
getAppendInitLevel == <<UndefStmt>>
getAppendFinalizeLevel == <<UndefStmt>>

Flags ==
  {"isFull", "isOrdered", "isUnique", "isBranchless", "isCompact",
   "hasCoordValIter", "hasCoordPosIter", "hasLocate", "hasInsert", "hasAppend"}

\* the operations, each with the capability flag of its group
GroupFlag ==
  [getCoordIter |-> "hasCoordValIter", getCoordAccess |-> "hasCoordValIter",
   getPosIter |-> "hasCoordPosIter", getPosAccess |-> "hasCoordPosIter",
   getLocate |-> "hasLocate",
   getInsertCoord |-> "hasInsert", getSize |-> "hasInsert",
   getInsertInitCoords |-> "hasInsert", getInsertInitLevel |-> "hasInsert",
   getInsertFinalizeLevel |-> "hasInsert",
   getAppendCoord |-> "hasAppend", getAppendEdges |-> "hasAppend",
   getAppendInitEdges |-> "hasAppend", getAppendInitLevel |-> "hasAppend",
   getAppendFinalizeLevel |-> "hasAppend"]

Operations == DOMAIN GroupFlag

\* what a call of operation op on a ModeTypeImpl returns
Call(op) ==
  CASE op = "getCoordIter"           -> getCoordIter
    [] op = "getCoordAccess"         -> getCoordAccess
    [] op = "getPosIter"             -> getPosIter
    [] op = "getPosAccess"           -> getPosAccess
    [] op = "getLocate"              -> getLocate
    [] op = "getInsertCoord"         -> getInsertCoord
    [] op = "getSize"                -> getModeSize
    [] op = "getInsertInitCoords"    -> getInsertInitCoords
    [] op = "getInsertInitLevel"     -> getInsertInitLevel
    [] op = "getInsertFinalizeLevel" -> getInsertFinalizeLevel
    [] op = "getAppendCoord"         -> getAppendCoord
    [] op = "getAppendEdges"         -> getAppendEdges
    [] op = "getAppendInitEdges"     -> getAppendInitEdges
    [] op = "getAppendInitLevel"     -> getAppendInitLevel
    [] op = "getAppendFinalizeLevel" -> getAppendFinalizeLevel

\* ModeTypeImpl::ModeTypeImpl(name, isFull, ..., hasAppend): the flags are
\* stored as given
NewModeTypeImpl(flags) ==
  /\ modeType.impl = None
  /\ modeType' = [impl |-> flags, call |-> None]
  /\ UNCHANGED <<unique_name_counter, codegenVars, threads, module, heap>>

\* one of the operations is called on the ModeTypeImpl
CallOperation(op) ==
  /\ modeType.impl # None
  /\ modeType' = [modeType EXCEPT !.call = [op |-> op, result |-> Call(op)]]
  /\ UNCHANGED <<unique_name_counter, codegenVars, threads, module, heap>>

NextModeType ==
  \/ \E flags \in [Flags -> BOOLEAN] : NewModeTypeImpl(flags)
  \/ \E op \in Operations : CallOperation(op)

SpecModeType == Init /\ [][NextModeType]_vars

\* an IR fragment is defined when one of its handles is
IsDefined(r) == \E i \in 1..Len(r) : r[i].defined

(***************************************************************************)
(* C7 (as claimed): an operation called on a ModeTypeImpl returns a        *)
(* defined IR fragment if and only if the capability flag of its group is  *)
(* set.                                                                    *)
(***************************************************************************)
C7_DefinedIffCapability ==
  modeType.call # None =>
    (IsDefined(modeType.call.result)
       <=> modeType.impl[GroupFlag[modeType.call.op]])

====
